---- MODULE Spec2Model ----
(***************************************************************************)
(* A model of spikeinterface/sortingcomponents/motion/motion_utils.py:     *)
(* the Motion class (construction, lazy interpolator cache, displacement   *)
(* query, save / load, equality, copy), get_windows and scipy_conv1d.      *)
(*                                                                         *)
(* Numpy arrays are records [py, shape, data] with the data in C order.    *)
(* Real numbers are exact rationals <<num, den>> in lowest terms; NaN is   *)
(* the pair <<0, 0>>.  A raised exception is the string naming its class.  *)
(***************************************************************************)
EXTENDS Integers, Sequences, FiniteSets, TLC

VARIABLES
    m,          \* the Motion under study (or the outcome of its construction)
    other,      \* a second Motion (Motion.__eq__, Motion.copy)
    loaded,     \* what Motion.load returned
    folder,     \* the folder on disk: file name -> content, or NoneVal
    heap,       \* array objects by address (aliasing of numpy arrays)
    call,       \* the last call made: its name and arguments
    result,     \* what the last call returned or raised
    called      \* whether get_displacement_at_time_and_depth was ever called

vars == <<m, other, loaded, folder, heap, call, result, called>>

\* Python values are records tagged by py: None, an int, a bool, a list, an
\* ndarray, a Motion, or a raised exception.
NoneVal == [py |-> "None"]

pyint(i) == [py |-> "int", val |-> i]

pybool(b) == [py |-> "bool", val |-> b]

raise(exc) == [py |-> "raise", exc |-> exc]

(***************************************************************************)
(* Bounds of the model.                                                    *)
(***************************************************************************)
MaxSeg == 2     \* segments of a Motion
MaxPts == 2     \* times / locations of one query

(***************************************************************************)
(* Exact rationals.                                                        *)
(***************************************************************************)
Abs(x) == IF x < 0 THEN -x ELSE x

RECURSIVE Gcd(_, _)
Gcd(a, b) == IF b = 0 THEN a ELSE Gcd(b, a % b)

NaN == <<0, 0>>

\* num / den in lowest terms with a positive denominator; x / 0 is NaN here
\* (the only division by zero the code performs is 0 / 0).
Rat(num, den) ==
    IF den = 0 THEN NaN
    ELSE LET g == Gcd(Abs(num), Abs(den))
             s == IF den < 0 THEN -1 ELSE 1
         IN  <<(s * num) \div g, (s * den) \div g>>

Int2Rat(x) == <<x, 1>>

IsNaN(r) == r[2] = 0

\* IEEE comparison: anything compared with NaN is false.
RatLess(a, b) == ~IsNaN(a) /\ ~IsNaN(b) /\ a[1] * b[2] < b[1] * a[2]

RatDiv(a, b) ==
    IF IsNaN(a) \/ IsNaN(b) THEN NaN ELSE Rat(a[1] * b[2], a[2] * b[1])

RatLessEq(a, b) == ~IsNaN(a) /\ ~IsNaN(b) /\ a[1] * b[2] <= b[1] * a[2]

RatSub(a, b) ==
    IF IsNaN(a) \/ IsNaN(b) THEN NaN ELSE Rat(a[1] * b[2] - b[1] * a[2], a[2] * b[2])

RatAbs(a) == <<Abs(a[1]), a[2]>>

RatAdd(a, b) ==
    IF IsNaN(a) \/ IsNaN(b) THEN NaN ELSE Rat(a[1] * b[2] + b[1] * a[2], a[2] * b[2])

(***************************************************************************)
(* Numpy arrays.                                                           *)
(***************************************************************************)
ndarray(shape, data) == [py |-> "ndarray", shape |-> shape, data |-> data]

pylist(items) == [py |-> "list", items |-> items]

array1d(seq) == ndarray(<<Len(seq)>>, seq)

ndim(a) == Len(a.shape)

isinstance_ndarray(x) == x.py = "ndarray"

\* a[i, j] of a 2-D array, 0-based as in the source
At2(a, i, j) == a.data[i * a.shape[2] + j + 1]

\* a[:, col] of a 2-D array
Column(a, col) ==
    array1d([i \in 1..a.shape[1] |-> At2(a, i - 1, col)])

SeqMin(s) == CHOOSE x \in {s[i] : i \in 1..Len(s)} : \A j \in 1..Len(s) : x <= s[j]

SeqMax(s) == CHOOSE x \in {s[i] : i \in 1..Len(s)} : \A j \in 1..Len(s) : x >= s[j]

\* ndarray.clip(lo, hi) = minimum(maximum(a, lo), hi), elementwise
clip(a, lo, hi) ==
    ndarray(a.shape,
            [k \in 1..Len(a.data) |->
                LET up == IF a.data[k] < lo THEN lo ELSE a.data[k]
                IN  IF up > hi THEN hi ELSE up])

IsNone(x) == x.py = "None"

IsError(x) == x.py = "raise"

(***************************************************************************)
(* scipy.interpolate.RegularGridInterpolator, as make_interpolators builds *)
(* it: two axes, the default bounds_error=True, no fill value.  The object *)
(* keeps references to the arrays it is given.                             *)
(***************************************************************************)
RegularGridInterpolator(points, values, method) ==
    [grid |-> points, values |-> values, method |-> method]

\* The interval of an ascending axis that holds x (1-based lower index) and
\* the distance of x from its lower end, as a fraction <<num, den>>.  An
\* axis of one point has the single index and distance 0.
find_indices(axis, x) ==
    IF Len(axis) = 1 THEN [lo |-> 1, hi |-> 1, num |-> 0, den |-> 1]
    ELSE LET below == {i \in 1..(Len(axis) - 1) : axis[i] <= x}
             i == IF below = {} THEN 1
                  ELSE CHOOSE k \in below : \A j \in below : j <= k
         IN  [lo |-> i, hi |-> i + 1, num |-> x - axis[i], den |-> axis[i + 1] - axis[i]]

evaluate_linear(h, itp, t, s) ==
    LET v  == h[itp.values]
        it == find_indices(h[itp.grid[1]].data, t)
        is == find_indices(h[itp.grid[2]].data, s)
        w00 == (it.den - it.num) * (is.den - is.num)
        w10 == it.num * (is.den - is.num)
        w01 == (it.den - it.num) * is.num
        w11 == it.num * is.num
    IN  Rat(  w00 * At2(v, it.lo - 1, is.lo - 1) + w10 * At2(v, it.hi - 1, is.lo - 1)
            + w01 * At2(v, it.lo - 1, is.hi - 1) + w11 * At2(v, it.hi - 1, is.hi - 1),
            it.den * is.den)

evaluate_nearest(h, itp, t, s) ==
    LET v  == h[itp.values]
        it == find_indices(h[itp.grid[1]].data, t)
        is == find_indices(h[itp.grid[2]].data, s)
        ti == IF 2 * it.num <= it.den THEN it.lo ELSE it.hi
        si == IF 2 * is.num <= is.den THEN is.lo ELSE is.hi
    IN  Int2Rat(At2(v, ti - 1, si - 1))

out_of_bounds(axis, x) == x < axis[1] \/ x > axis[Len(axis)]

\* interpolator(points): points is a sequence of <<time, location>> rows
interpolate(h, itp, points) ==
    IF \E k \in 1..Len(points) :
           \/ out_of_bounds(h[itp.grid[1]].data, points[k][1])
           \/ out_of_bounds(h[itp.grid[2]].data, points[k][2])
    THEN raise("ValueError")
    ELSE array1d([k \in 1..Len(points) |->
            IF itp.method = "nearest"
            THEN evaluate_nearest(h, itp, points[k][1], points[k][2])
            ELSE evaluate_linear(h, itp, points[k][1], points[k][2])])

(***************************************************************************)
(* class Motion.  An object's array attributes are heap addresses; h is    *)
(* the heap.  A constructor argument is a reference to an ndarray or a     *)
(* pylist of addresses.                                                    *)
(***************************************************************************)
ref(addr) == [py |-> "ndarray", addr |-> addr]

IsArrayRef(x) == x.py = "ndarray"

Directions == <<"x", "y", "z">>

direction_index(direction) == (CHOOSE i \in 1..3 : Directions[i] = direction) - 1

check_properties(h, self) ==
    /\ \A i \in 1..Len(self.displacement) : ndim(h[self.displacement[i]]) = 2
    /\ \A i \in 1..Len(self.temporal_bins_s) : ndim(h[self.temporal_bins_s[i]]) = 1
    /\ \A i \in 1..Len(self.displacement) :
           h[self.spatial_bins_um].shape = <<h[self.displacement[i]].shape[2]>>

Motion_init(h, displacement, temporal_bins_s, spatial_bins_um, direction, interpolation_method) ==
    IF IsArrayRef(displacement) /\ ~IsArrayRef(temporal_bins_s) THEN raise("AssertionError")
    ELSE IF ~IsArrayRef(spatial_bins_um) THEN raise("AssertionError")
    ELSE LET self ==
                 [py |-> "Motion",
                  displacement |-> IF IsArrayRef(displacement) THEN <<displacement.addr>>
                                   ELSE displacement.items,
                  temporal_bins_s |-> IF IsArrayRef(displacement) THEN <<temporal_bins_s.addr>>
                                      ELSE temporal_bins_s.items,
                  spatial_bins_um |-> spatial_bins_um.addr,
                  num_segments |-> IF IsArrayRef(displacement) THEN 1
                                   ELSE Len(displacement.items),
                  interpolators |-> NoneVal,
                  temporal_bounds |-> NoneVal,
                  spatial_bounds |-> NoneVal,
                  interpolation_method |-> interpolation_method,
                  direction |-> direction,
                  dim |-> direction_index(direction)]
         IN  IF check_properties(h, self) THEN self ELSE raise("AssertionError")

\* A plausible slip: every segment given the temporal bounds of segment 0.
make_interpolators_bounds0(h, self) ==
    [self EXCEPT
        !.interpolators =
            pylist([j \in 1..self.num_segments |->
                RegularGridInterpolator(<<self.temporal_bins_s[j], self.spatial_bins_um>>,
                                        self.displacement[j], self.interpolation_method)]),
        !.temporal_bounds =
            pylist([j \in 1..Len(self.temporal_bins_s) |->
                LET t == h[self.temporal_bins_s[1]].data IN <<t[1], t[Len(t)]>>]),
        !.spatial_bounds =
            pylist(<<SeqMin(h[self.spatial_bins_um].data), SeqMax(h[self.spatial_bins_um].data)>>)]

make_interpolators(h, self) ==
    [self EXCEPT
        !.interpolators =
            pylist([j \in 1..self.num_segments |->
                RegularGridInterpolator(<<self.temporal_bins_s[j], self.spatial_bins_um>>,
                                        self.displacement[j], self.interpolation_method)]),
        !.temporal_bounds =
            pylist([j \in 1..Len(self.temporal_bins_s) |->
                LET t == h[self.temporal_bins_s[j]].data IN <<t[1], t[Len(t)]>>]),
        !.spatial_bounds =
            pylist(<<SeqMin(h[self.spatial_bins_um].data), SeqMax(h[self.spatial_bins_um].data)>>)]

\* A plausible slip: the grid laid out with the times along the rows.
meshgrid_ravel_xy(locations_um, times_s) ==
    LET L == Len(locations_um.data)
        T == Len(times_s.data)
    IN  [locations_um |-> [k \in 1..(L * T) |-> locations_um.data[((k - 1) % L) + 1]],
         times_s |-> [k \in 1..(L * T) |-> times_s.data[((k - 1) \div L) + 1]],
         shape |-> <<L, T>>]

\* np.meshgrid(locations_um, times_s, indexing="ij"), both raveled in C
\* order, and the shape of the grid.
meshgrid_ravel(locations_um, times_s) ==
    LET L == Len(locations_um.data)
        T == Len(times_s.data)
    IN  [locations_um |-> [k \in 1..(L * T) |-> locations_um.data[((k - 1) \div T) + 1]],
         times_s |-> [k \in 1..(L * T) |-> times_s.data[((k - 1) % T) + 1]],
         shape |-> <<L, T>>]

\* The part of get_displacement_at_time_and_depth after the cache and the
\* segment index are settled (lines 120-150): what it returns or raises.
displacement_at(h, self, times_s, locations_um, segment_index, grid) ==
    IF ndim(locations_um) \notin {1, 2} THEN raise("AssertionError")
    ELSE IF ndim(locations_um) = 2 /\ self.dim >= locations_um.shape[2] THEN raise("IndexError")
    ELSE IF segment_index + 1 > Len(self.temporal_bounds.items) THEN raise("IndexError")
    ELSE
    LET loc1 == IF ndim(locations_um) = 1 THEN locations_um
                ELSE Column(locations_um, self.dim)
        tb == self.temporal_bounds.items[segment_index + 1]
        t == clip(times_s, tb[1], tb[2])
        l == clip(loc1, self.spatial_bounds.items[1], self.spatial_bounds.items[2])
    IN  IF ~grid /\ (l.shape # t.shape \/ ndim(t) # 1) THEN raise("AssertionError")
        ELSE IF segment_index + 1 > Len(self.interpolators.items) THEN raise("IndexError")
        ELSE
        LET g == meshgrid_ravel(l, t)
            loc_flat == IF grid THEN g.locations_um ELSE l.data
            t_flat == IF grid THEN g.times_s ELSE t.data
            out_shape == IF grid THEN g.shape ELSE t.shape
            points == [k \in 1..Len(t_flat) |-> <<t_flat[k], loc_flat[k]>>]
            displacement == interpolate(h, self.interpolators.items[segment_index + 1], points)
        IN  IF IsError(displacement) THEN displacement
            ELSE ndarray(out_shape, displacement.data)

\* A plausible slip: segment 0 taken whenever no segment index is given.
get_displacement_default0(h, self, times_s, locations_um, segment_index, grid) ==
    LET self1 == IF IsNone(self.interpolators) THEN make_interpolators(h, self) ELSE self
    IN  [self |-> self1,
         out |-> displacement_at(h, self1, times_s, locations_um,
                                 IF IsNone(segment_index) THEN 0 ELSE segment_index.val,
                                 grid)]

\* A plausible slip: the segment index checked before the cache is built.
get_displacement_check_first(h, self, times_s, locations_um, segment_index, grid) ==
    IF IsNone(segment_index) /\ self.num_segments # 1
    THEN [self |-> self, out |-> raise("ValueError")]
    ELSE LET self1 == IF IsNone(self.interpolators) THEN make_interpolators(h, self) ELSE self
         IN  [self |-> self1,
              out |-> displacement_at(h, self1, times_s, locations_um,
                                      IF IsNone(segment_index) THEN 0 ELSE segment_index.val,
                                      grid)]

\* [self |-> the Motion after the call, out |-> the array returned or the
\* exception raised]
get_displacement_at_time_and_depth(h, self, times_s, locations_um, segment_index, grid) ==
    LET self1 == IF IsNone(self.interpolators) THEN make_interpolators(h, self) ELSE self
    IN  IF IsNone(segment_index) /\ self1.num_segments # 1
        THEN [self |-> self1, out |-> raise("ValueError")]
        ELSE [self |-> self1,
              out |-> displacement_at(h, self1, times_s, locations_um,
                                      IF IsNone(segment_index) THEN 0 ELSE segment_index.val,
                                      grid)]

(***************************************************************************)
(* Motion.save and Motion.load.  The folder is NoneVal while it does not   *)
(* exist, else its files by name.  A .npy file holds an array's shape and  *)
(* data; the JSON file holds each value as JSON text.                      *)
(***************************************************************************)
json_int(i) == ToString(i)

json_str(x) == "\"" \o x \o "\""

\* json.load of one value: the int or the string the text denotes
json_parse_int(text) == CHOOSE i \in 0..(MaxSeg + 2) : json_int(i) = text

JsonStrings == {"Motion", "x", "y", "z", "linear", "nearest"}

json_parse_str(text) == CHOOSE x \in JsonStrings : json_str(x) = text

np_save(arr) == [shape |-> arr.shape, data |-> arr.data]

np_load(file) == ndarray(file.shape, file.data)

directory(files) == [py |-> "dir", files |-> files]

info_file == "spikeinterface_info.json"

spatial_file == "spatial_bins_um.npy"

displacement_file(segment_index) == "displacement_seg" \o ToString(segment_index) \o ".npy"

temporal_file(segment_index) == "temporal_bins_s_seg" \o ToString(segment_index) \o ".npy"

\* the loop of save, from segment_index on
RECURSIVE save_segments(_, _, _, _)
save_segments(h, self, files, segment_index) ==
    IF segment_index >= self.num_segments THEN files
    ELSE save_segments(h, self,
             (displacement_file(segment_index) :> np_save(h[self.displacement[segment_index + 1]]))
             @@ (temporal_file(segment_index) :> np_save(h[self.temporal_bins_s[segment_index + 1]]))
             @@ files,
             segment_index + 1)

\* A plausible slip: every segment written to the files of segment 0.
save_all_to_seg0(h, self, fs) ==
    IF ~IsNone(fs) THEN [folder |-> fs, out |-> raise("FileExistsError")]
    ELSE LET info == [version |-> json_str("version"),
                      dev_mode |-> "false",
                      object |-> json_str("Motion"),
                      num_segments |-> json_int(self.num_segments),
                      direction |-> json_str(self.direction),
                      interpolation_method |-> json_str(self.interpolation_method)]
             last == self.num_segments
         IN  [folder |-> directory(
                  (displacement_file(0) :> np_save(h[self.displacement[last]]))
                  @@ (temporal_file(0) :> np_save(h[self.temporal_bins_s[last]]))
                  @@ (info_file :> info)
                  @@ (spatial_file :> np_save(h[self.spatial_bins_um]))),
              out |-> NoneVal]

\* [folder |-> the folder after the call, out |-> None or the exception]
save(h, self, fs) ==
    IF ~IsNone(fs) THEN [folder |-> fs, out |-> raise("FileExistsError")]
    ELSE LET info == [version |-> json_str("version"),
                      dev_mode |-> "false",
                      object |-> json_str("Motion"),
                      num_segments |-> json_int(self.num_segments),
                      direction |-> json_str(self.direction),
                      interpolation_method |-> json_str(self.interpolation_method)]
         IN  [folder |-> directory(
                  save_segments(h, self,
                      (info_file :> info) @@ (spatial_file :> np_save(h[self.spatial_bins_um])),
                      0)),
              out |-> NoneVal]

\* [heap |-> the heap with the arrays read, out |-> the Motion or the
\* exception]
load(h, fs) ==
    IF IsNone(fs) \/ info_file \notin DOMAIN fs.files
    THEN [heap |-> h, out |-> raise("IOError")]
    ELSE
    LET info == fs.files[info_file]
    IN  IF info.object # json_str("Motion") THEN [heap |-> h, out |-> raise("IOError")]
        ELSE
        LET n == json_parse_int(info.num_segments)
            needed == {spatial_file} \cup {displacement_file(i) : i \in 0..(n - 1)}
                          \cup {temporal_file(i) : i \in 0..(n - 1)}
            base == Len(h)
            \* spatial_bins_um at base + 1, segment i at base + 2i + 2 and + 3
            h1 == [a \in 1..(base + 2 * n + 1) |->
                      IF a <= base THEN h[a]
                      ELSE IF a = base + 1 THEN np_load(fs.files[spatial_file])
                      ELSE LET i == (a - base - 2) \div 2
                           IN  IF (a - base) % 2 = 0 THEN np_load(fs.files[displacement_file(i)])
                               ELSE np_load(fs.files[temporal_file(i)])]
        IN  IF ~(needed \subseteq DOMAIN fs.files)
            THEN [heap |-> h, out |-> raise("FileNotFoundError")]
            ELSE [heap |-> h1,
                  out |-> Motion_init(h1,
                              pylist([j \in 1..n |-> base + 2 * j]),
                              pylist([j \in 1..n |-> base + 2 * j + 1]),
                              ref(base + 1),
                              json_parse_str(info.direction),
                              json_parse_str(info.interpolation_method))]

(***************************************************************************)
(* Motion.__eq__ and Motion.copy.                                          *)
(***************************************************************************)
\* a shape as two dimensions, as broadcasting aligns it
Shape2(shape) ==
    IF Len(shape) = 2 THEN shape ELSE IF Len(shape) = 1 THEN <<1, shape[1]>> ELSE <<1, 1>>

\* np.isclose with the default rtol = 1e-5 and atol = 1e-8, scaled by 1e8
isclose(x, y) == 100000000 * Abs(x - y) <= 1 + 1000 * Abs(y)

\* np.allclose(a, b) of arrays of at most two dimensions: True or False, or
\* the ValueError of shapes that do not broadcast
allclose(a, b) ==
    LET sa == Shape2(a.shape)
        sb == Shape2(b.shape)
        dim(d) == IF sa[d] = 1 THEN sb[d] ELSE sa[d]
        elem(x, sx, i, j) ==
            x.data[(IF sx[1] = 1 THEN 0 ELSE i) * sx[2] + (IF sx[2] = 1 THEN 0 ELSE j) + 1]
    IN  IF \E d \in 1..2 : sa[d] # sb[d] /\ sa[d] # 1 /\ sb[d] # 1 THEN raise("ValueError")
        ELSE pybool(\A i \in 0..(dim(1) - 1), j \in 0..(dim(2) - 1) :
                        isclose(elem(a, sa, i, j), elem(b, sb, i, j)))

\* the loop of __eq__, from segment_index on: False, an exception, or True
\* when every segment passed
RECURSIVE eq_segments(_, _, _, _)
eq_segments(h, self, other_, segment_index) ==
    IF segment_index >= self.num_segments THEN pybool(TRUE)
    ELSE IF segment_index + 1 > Len(other_.displacement) THEN raise("IndexError")
    ELSE LET d == allclose(h[self.displacement[segment_index + 1]],
                           h[other_.displacement[segment_index + 1]])
         IN  IF d # pybool(TRUE) THEN d
             ELSE IF segment_index + 1 > Len(other_.temporal_bins_s) THEN raise("IndexError")
             ELSE LET t == allclose(h[self.temporal_bins_s[segment_index + 1]],
                                    h[other_.temporal_bins_s[segment_index + 1]])
                  IN  IF t # pybool(TRUE) THEN t
                      ELSE eq_segments(h, self, other_, segment_index + 1)

Motion_eq(h, self, other_) ==
    LET segments == eq_segments(h, self, other_, 0)
    IN  IF segments # pybool(TRUE) THEN segments
        ELSE allclose(h[self.spatial_bins_um], h[other_.spatial_bins_um])

\* [heap |-> the heap with the arrays copy() allocates, out |-> the copy]:
\* list.copy() makes a new list of the same arrays, ndarray.copy() a new
\* array; direction is left to the constructor's default.
copy(h, self) ==
    LET h1 == Append(h, h[self.spatial_bins_um])
    IN  [heap |-> h1,
         out |-> Motion_init(h1, pylist(self.displacement), pylist(self.temporal_bins_s),
                             ref(Len(h1)), "y", self.interpolation_method)]

(***************************************************************************)
(* The Motions and the queries the model draws from.                       *)
(***************************************************************************)
SpatialChoices == {<<1>>, <<0, 2>>}

TemporalChoices == << <<0, 2>>, <<1, 3>>, <<0, 1, 4>> >>

QTimes == {-1, 1, 4}

QLocs == {-1, 1, 3}

\* The Motions drawn are numbered c: the number sets the temporal bins and
\* the displacement of each segment, the direction and the method.
MotionNumbers == 0..3

DirectionOf(c) == Directions[((c + 1) % 3) + 1]

MethodOf(c) == IF c = 2 THEN "nearest" ELSE "linear"

SeqsUpTo(S, n) == UNION {[1..k -> S] : k \in 0..n}

\* segment j (0-based) of the Motion numbered c
TemporalOf(c, j) == TemporalChoices[((c + j) % Len(TemporalChoices)) + 1]

DisplacementOf(c, j, T, S) ==
    ndarray(<<T, S>>, [k \in 1..(T * S) |-> ((c + j) * k + k * k) % 5])

\* The arrays of a Motion of n segments: spatial_bins_um first (address 1),
\* segment j's displacement at 2j + 2 and its temporal bins at 2j + 3.
HeapOf(n, c, spatial) ==
    [a \in 1..(2 * n + 1) |->
        IF a = 1 THEN array1d(spatial)
        ELSE LET j == (a - 2) \div 2
                 t == TemporalOf(c, j)
             IN  IF a % 2 = 0 THEN DisplacementOf(c, j, Len(t), Len(spatial))
                 ELSE array1d(t)]

\* Motion(displacement, temporal_bins_s, spatial_bins_um, direction,
\* interpolation_method): arrays for one segment, lists for several.
\* The arrays are those from address base + 1 on.
NewMotionAt(h, base, n, c) ==
    IF n = 1
    THEN Motion_init(h, ref(base + 2), ref(base + 3), ref(base + 1), DirectionOf(c), MethodOf(c))
    ELSE Motion_init(h, pylist([j \in 1..n |-> base + 2 * j]),
                     pylist([j \in 1..n |-> base + 2 * j + 1]),
                     ref(base + 1), DirectionOf(c), MethodOf(c))

NewMotion(h, n, c) == NewMotionAt(h, 0, n, c)

TimesIn == {array1d(s) : s \in SeqsUpTo(QTimes, MaxPts)}

LocRows == {<<-1, 1>>, <<1, 3>>, <<3, -1>>}

LocationsIn ==
    {array1d(s) : s \in SeqsUpTo(QLocs, MaxPts)} \cup {ndarray(<<1, 2>>, r) : r \in LocRows}

SegmentsIn == {NoneVal} \cup {pyint(i) : i \in 0..(MaxSeg - 1)}

NoCall == [name |-> "none"]

NoResult == [py |-> "nothing"]

(***************************************************************************)
(* Queries on one Motion.                                                  *)
(***************************************************************************)
InitMotion ==
    /\ \E n \in 1..MaxSeg, c \in MotionNumbers, spatial \in SpatialChoices :
          /\ heap = HeapOf(n, c, spatial)
          /\ m = NewMotion(heap, n, c)
    /\ other = NoneVal
    /\ loaded = NoneVal
    /\ folder = NoneVal
    /\ call = NoCall
    /\ result = NoResult
    /\ called = FALSE

Query ==
    /\ result = NoResult
    /\ \E times_s \in TimesIn, locations_um \in LocationsIn, segment_index \in SegmentsIn,
          grid \in BOOLEAN :
          LET r == get_displacement_at_time_and_depth(heap, m, times_s, locations_um,
                                                      segment_index, grid)
          IN  /\ m' = r.self
              /\ result' = r.out
              /\ call' = [name |-> "get_displacement_at_time_and_depth",
                          times_s |-> times_s, locations_um |-> locations_um,
                          segment_index |-> segment_index, grid |-> grid]
    /\ called' = TRUE
    /\ UNCHANGED <<other, loaded, folder, heap>>

\* the caller drops what the last call returned
Discard ==
    /\ result # NoResult
    /\ call' = NoCall
    /\ result' = NoResult
    /\ UNCHANGED <<m, other, loaded, folder, heap, called>>

NextMotion == Query \/ Discard

Spec == InitMotion /\ [][NextMotion]_vars

(***************************************************************************)
(* Properties of the queries.                                              *)
(***************************************************************************)
IsQuery == call.name = "get_displacement_at_time_and_depth"

\* the segment the call is about, when it names one or there is only one
ValidSegment ==
    IF IsNone(call.segment_index) THEN m.num_segments = 1
    ELSE call.segment_index.val < m.num_segments

SegmentOfCall == IF IsNone(call.segment_index) THEN 0 ELSE call.segment_index.val

ValidLocations ==
    ndim(call.locations_um) = 1 \/ m.dim < call.locations_um.shape[2]

QueryOut(times_s, locations_um, segment_index, grid) ==
    get_displacement_at_time_and_depth(heap, m, times_s, locations_um, segment_index, grid).out

Clamp(x, lo, hi) == IF x < lo THEN lo ELSE IF x > hi THEN hi ELSE x

FirstBin(i) == heap[m.temporal_bins_s[i + 1]].data[1]

LastBin(i) ==
    LET t == heap[m.temporal_bins_s[i + 1]].data IN t[Len(t)]

SpatialMin == SeqMin(heap[m.spatial_bins_um].data)

SpatialMax == SeqMax(heap[m.spatial_bins_um].data)

ClampedTimes(i) ==
    ndarray(call.times_s.shape,
            [k \in 1..Len(call.times_s.data) |->
                Clamp(call.times_s.data[k], FirstBin(i), LastBin(i))])

ClampedLocations ==
    ndarray(call.locations_um.shape,
            [k \in 1..Len(call.locations_um.data) |->
                Clamp(call.locations_um.data[k], SpatialMin, SpatialMax)])

\* the locations along the Motion's direction
LocationsAlongDim ==
    IF ndim(call.locations_um) = 1 THEN call.locations_um.data
    ELSE Column(call.locations_um, m.dim).data

\* the displacement of segment i at a point inside its bins, from the
\* segment's own arrays
SegmentValueAt(i, t, l) ==
    LET itp == RegularGridInterpolator(<<m.temporal_bins_s[i + 1], m.spatial_bins_um>>,
                                       m.displacement[i + 1], m.interpolation_method)
    IN  IF m.interpolation_method = "nearest" THEN evaluate_nearest(heap, itp, t, l)
        ELSE evaluate_linear(heap, itp, t, l)

\* C2: a query on segment i clamps each time into the first and last
\* temporal bin of segment i and each location into the min and max of
\* spatial_bins_um: it returns what the query at the clamped coordinates
\* returns, never an out-of-bounds error, and each value of a point query
\* is segment i's displacement at the clamped point.
C2_ClampedToOwnBounds ==
    (IsQuery /\ ValidSegment /\ ValidLocations) =>
        LET i == SegmentOfCall
        IN  /\ result = QueryOut(ClampedTimes(i), ClampedLocations, call.segment_index, call.grid)
            /\ result # raise("ValueError")
            /\ (~call.grid /\ ~IsError(result)) =>
                   \A k \in 1..Len(result.data) :
                       result.data[k] =
                           SegmentValueAt(i, Clamp(call.times_s.data[k], FirstBin(i), LastBin(i)),
                                          Clamp(LocationsAlongDim[k], SpatialMin, SpatialMax))

\* a point query on the second segment with a time before its first bin, a
\* time after its last bin and locations outside the spatial bins
C2_Witness ==
    /\ IsQuery /\ ~call.grid /\ ~IsError(result)
    /\ m.num_segments = 2
    /\ call.segment_index = pyint(1)
    /\ call.times_s.data = <<-1, 4>>
    /\ call.locations_um.data = <<3, -1>>
    /\ result.data[1] # result.data[2]

NumLocations == call.locations_um.shape[1]

\* location i (0-based) of the call, as the locations of a one-point query
LocationPoint(i) ==
    IF ndim(call.locations_um) = 1 THEN array1d(<<call.locations_um.data[i + 1]>>)
    ELSE ndarray(<<1, call.locations_um.shape[2]>>,
                 [c \in 1..call.locations_um.shape[2] |-> At2(call.locations_um, i, c - 1)])

\* C3: a grid query with L locations and T times returns an array of shape
\* (L, T) whose entry [i, j] is what the point query at (times[j],
\* locations[i]) returns on the same segment.
C3_GridIsPointwise ==
    (IsQuery /\ call.grid /\ ValidSegment /\ ValidLocations) =>
        LET L == NumLocations
            T == Len(call.times_s.data)
        IN  /\ ~IsError(result)
            /\ result.shape = <<L, T>>
            /\ Len(result.data) = L * T
            /\ \A i \in 0..(L - 1), j \in 0..(T - 1) :
                   LET point == QueryOut(array1d(<<call.times_s.data[j + 1]>>), LocationPoint(i),
                                          call.segment_index, FALSE)
                   IN  /\ ~IsError(point)
                       /\ point.shape = <<1>>
                       /\ result.data[i * T + j + 1] = point.data[1]

\* a 2 x 2 grid whose [0, 1] and [1, 0] entries differ
C3_Witness ==
    /\ IsQuery /\ call.grid /\ ~IsError(result)
    /\ result.shape = <<2, 2>>
    /\ result.data[2] # result.data[3]

\* C6: without segment_index, a Motion of several segments raises
\* ValueError and one of a single segment answers as with segment_index=0.
C6_SegmentIndexDefault ==
    (IsQuery /\ IsNone(call.segment_index)) =>
        IF m.num_segments > 1 THEN result = raise("ValueError")
        ELSE result = QueryOut(call.times_s, call.locations_um, pyint(0), call.grid)

\* no segment_index on a Motion of two segments: the ValueError
C6_Witness ==
    /\ IsQuery /\ IsNone(call.segment_index)
    /\ m.num_segments = 2
    /\ result = raise("ValueError")
    /\ Len(call.times_s.data) = 1

\* the Motion as constructed: without its cache
WithoutCache(self) ==
    [self EXCEPT !.interpolators = NoneVal, !.temporal_bounds = NoneVal,
                 !.spatial_bounds = NoneVal]

C10_CacheState ==
    /\ ~called => /\ IsNone(m.interpolators)
                  /\ IsNone(m.temporal_bounds)
                  /\ IsNone(m.spatial_bounds)
    /\ called =>
        /\ ~IsNone(m.interpolators)
        /\ Len(m.interpolators.items) = m.num_segments
        /\ Len(m.temporal_bounds.items) = m.num_segments
        /\ \A j \in 1..m.num_segments :
               /\ m.interpolators.items[j] =
                      [grid |-> <<m.temporal_bins_s[j], m.spatial_bins_um>>,
                       values |-> m.displacement[j], method |-> m.interpolation_method]
               /\ m.temporal_bounds.items[j] = <<FirstBin(j - 1), LastBin(j - 1)>>
        /\ m.spatial_bounds.items = <<SpatialMin, SpatialMax>>
    /\ IsQuery =>
           result = get_displacement_at_time_and_depth(
                        heap, WithoutCache(m), call.times_s, call.locations_um,
                        call.segment_index, call.grid).out

C10_CacheStep ==
    /\ ~IsNone(m.interpolators) =>
           /\ m'.interpolators = m.interpolators
           /\ m'.temporal_bounds = m.temporal_bounds
           /\ m'.spatial_bounds = m.spatial_bounds
    /\ WithoutCache(m') = WithoutCache(m)
    /\ heap' = heap

\* C10: the cache is absent until the first query, built by it (also when
\* the call fails) with one interpolator and one temporal bound pair per
\* segment and the spatial bounds, never changed afterwards; no query
\* changes the Motion's data, and a query's result does not depend on the
\* queries before it.
C10_LazyCache == []C10_CacheState /\ [][C10_CacheStep]_vars

\* a failed first call (no segment_index, two segments) has built the cache
C10_Witness ==
    /\ IsQuery /\ result = raise("ValueError")
    /\ IsNone(call.segment_index)
    /\ m.num_segments = 2
    /\ Len(m.interpolators.items) = 2

(***************************************************************************)
(* save, load and == on two Motions.                                       *)
(***************************************************************************)
InitPersist ==
    /\ \E n \in 1..MaxSeg, c \in MotionNumbers, spatial \in SpatialChoices,
          n2 \in 1..MaxSeg, c2 \in MotionNumbers, spatial2 \in SpatialChoices :
          /\ heap = HeapOf(n, c, spatial) \o HeapOf(n2, c2, spatial2)
          /\ m = NewMotionAt(heap, 0, n, c)
          /\ other = NewMotionAt(heap, 2 * n + 1, n2, c2)
    /\ loaded = NoneVal
    /\ folder = NoneVal
    /\ call = NoCall
    /\ result = NoResult
    /\ called = FALSE

\* m.save(folder)
Save ==
    /\ result = NoResult
    /\ LET r == save(heap, m, folder)
       IN  /\ folder' = r.folder
           /\ result' = r.out
    /\ call' = [name |-> "save"]
    /\ UNCHANGED <<m, other, loaded, heap, called>>

\* loaded = Motion.load(folder)
Load ==
    /\ result = NoResult
    /\ IsNone(loaded)
    /\ LET r == load(heap, folder)
       IN  /\ heap' = r.heap
           /\ result' = r.out
           /\ loaded' = IF IsError(r.out) THEN loaded ELSE r.out
    /\ call' = [name |-> "load"]
    /\ UNCHANGED <<m, other, folder, called>>

Object(name) == IF name = "m" THEN m ELSE IF name = "other" THEN other ELSE loaded

\* a == b
Equal ==
    /\ result = NoResult
    /\ \E a \in {"m", "other", "loaded"}, b \in {"m", "other", "loaded"} :
          /\ ~IsNone(Object(a))
          /\ ~IsNone(Object(b))
          /\ result' = Motion_eq(heap, Object(a), Object(b))
          /\ call' = [name |-> "eq", a |-> a, b |-> b]
    /\ UNCHANGED <<m, other, loaded, folder, heap, called>>

NextPersist == Save \/ Load \/ Equal \/ Discard

SpecPersist == InitPersist /\ [][NextPersist]_vars

SegmentFiles(n) ==
    {displacement_file(i) : i \in 0..(n - 1)} \cup {temporal_file(i) : i \in 0..(n - 1)}

\* C1: after m.save(folder) on a folder that did not exist, the folder holds
\* segment N's arrays in displacement_seg<N> and temporal_bins_s_seg<N>;
\* Motion.load(folder) then returns a Motion equal to m under __eq__, with
\* m's number of segments, direction and interpolation method, each
\* segment's arrays read back from that segment's own files.
C1_SaveLoadRoundTrip ==
    /\ ~IsNone(folder) =>
        /\ DOMAIN folder.files = {info_file, spatial_file} \cup SegmentFiles(m.num_segments)
        /\ \A i \in 0..(m.num_segments - 1) :
               /\ np_load(folder.files[displacement_file(i)]) = heap[m.displacement[i + 1]]
               /\ np_load(folder.files[temporal_file(i)]) = heap[m.temporal_bins_s[i + 1]]
    /\ (call.name = "load" /\ ~IsNone(folder)) => (~IsError(result) /\ loaded = result)
    /\ ~IsNone(loaded) =>
        /\ Motion_eq(heap, m, loaded) = pybool(TRUE)
        /\ Motion_eq(heap, loaded, m) = pybool(TRUE)
        /\ loaded.num_segments = m.num_segments
        /\ Len(loaded.displacement) = m.num_segments
        /\ Len(loaded.temporal_bins_s) = m.num_segments
        /\ loaded.direction = m.direction
        /\ loaded.dim = m.dim
        /\ loaded.interpolation_method = m.interpolation_method
        /\ heap[loaded.spatial_bins_um] = heap[m.spatial_bins_um]
        /\ \A i \in 0..(m.num_segments - 1) :
               /\ heap[loaded.displacement[i + 1]] = np_load(folder.files[displacement_file(i)])
               /\ heap[loaded.temporal_bins_s[i + 1]] = np_load(folder.files[temporal_file(i)])
               /\ heap[loaded.displacement[i + 1]] = heap[m.displacement[i + 1]]
               /\ heap[loaded.temporal_bins_s[i + 1]] = heap[m.temporal_bins_s[i + 1]]

\* a Motion of two different segments, direction x and method nearest,
\* loaded back
C1_Witness ==
    /\ call.name = "load"
    /\ ~IsNone(loaded)
    /\ loaded.num_segments = 2
    /\ loaded.direction = "x"
    /\ loaded.interpolation_method = "nearest"
    /\ heap[loaded.displacement[1]] # heap[loaded.displacement[2]]
    /\ heap[loaded.temporal_bins_s[1]] # heap[loaded.temporal_bins_s[2]]

Close(x, y) == allclose(x, y) = pybool(TRUE)

\* what C9 says a == b is
ClaimedEqual(a, b) ==
    /\ Len(a.displacement) = Len(b.displacement)
    /\ Len(a.temporal_bins_s) = Len(b.temporal_bins_s)
    /\ \A j \in 1..Len(a.displacement) :
           j <= Len(b.displacement) => Close(heap[a.displacement[j]], heap[b.displacement[j]])
    /\ \A j \in 1..Len(a.temporal_bins_s) :
           j <= Len(b.temporal_bins_s) =>
               Close(heap[a.temporal_bins_s[j]], heap[b.temporal_bins_s[j]])
    /\ Close(heap[a.spatial_bins_um], heap[b.spatial_bins_um])

\* C9: a == b never raises, is True exactly when every segment of a and of
\* b is close to the same-index segment of the other and the spatial bins
\* are close, and is what b == a is.
C9_EqualityTotalSymmetric ==
    call.name = "eq" =>
        /\ ~IsError(result)
        /\ result = pybool(ClaimedEqual(Object(call.a), Object(call.b)))
        /\ result = Motion_eq(heap, Object(call.b), Object(call.a))

(***************************************************************************)
(* copy() and writes to the arrays of a Motion and of its copy.            *)
(***************************************************************************)
\* the values a caller writes
WriteValues == {9}

InitCopy ==
    /\ \E n \in 1..MaxSeg, c \in MotionNumbers, spatial \in SpatialChoices :
          /\ heap = HeapOf(n, c, spatial)
          /\ m = NewMotion(heap, n, c)
    /\ other = NoneVal
    /\ loaded = NoneVal
    /\ folder = NoneVal
    /\ call = NoCall
    /\ result = NoResult
    /\ called = FALSE

\* other = m.copy()
CopyMotion ==
    /\ IsNone(other)
    /\ LET r == copy(heap, m)
       IN  /\ heap' = r.heap
           /\ other' = r.out
           /\ result' = r.out
    /\ call' = [name |-> "copy"]
    /\ UNCHANGED <<m, loaded, folder, called>>

\* the arrays of a Motion, by value
View(self) ==
    [displacement |-> [j \in 1..Len(self.displacement) |-> heap[self.displacement[j]]],
     temporal_bins_s |-> [j \in 1..Len(self.temporal_bins_s) |-> heap[self.temporal_bins_s[j]]],
     spatial_bins_um |-> heap[self.spatial_bins_um]]

ArraysOf(self) ==
    {self.displacement[j] : j \in 1..Len(self.displacement)}
        \cup {self.temporal_bins_s[j] : j \in 1..Len(self.temporal_bins_s)}
        \cup {self.spatial_bins_um}

\* the caller writes one element of one array of m or of the copy
Write ==
    /\ call.name # "write"
    /\ \E target \in {"m", "other"} :
          /\ ~IsNone(Object(target))
          /\ \E addr \in ArraysOf(Object(target)) :
                \E k \in 1..Len(heap[addr].data) :
                    \E v \in WriteValues : heap' = [heap EXCEPT ![addr].data[k] = v]
          /\ call' = [name |-> "write", target |-> target,
                      untouched |-> IF IsNone(other) THEN NoneVal
                                    ELSE IF target = "m" THEN View(other) ELSE View(m)]
    /\ result' = NoResult
    /\ UNCHANGED <<m, other, loaded, folder, called>>

NextCopy == CopyMotion \/ Write

SpecCopy == InitCopy /\ [][NextCopy]_vars

\* C5: a write to any element of any array of the copy leaves the arrays of
\* the original as they were, and a write to the original those of the copy.
C5_CopyIsIndependent ==
    (call.name = "write" /\ ~IsNone(other)) =>
        View(IF call.target = "m" THEN other ELSE m) = call.untouched

(***************************************************************************)
(* Construction from arrays of any shape.                                  *)
(***************************************************************************)
DisplacementShapes == {<<2, 1>>, <<2, 2>>, <<3, 2>>, <<2>>, <<2, 2, 1>>}

TemporalShapes == {<<2>>, <<3>>, <<2, 1>>}

SpatialShapes == {<<1>>, <<2>>, <<1, 2>>}

RECURSIVE Product(_)
Product(shape) == IF shape = <<>> THEN 1 ELSE Head(shape) * Product(Tail(shape))

\* np.arange(size).reshape(shape)
arange(shape) == ndarray(shape, [k \in 1..Product(shape) |-> k - 1])

\* spatial_bins_um at address 1, then the displacement arrays, then the
\* temporal-bin arrays; the arguments are arrays or lists of them.
InitConstruct ==
    /\ \E nd \in 1..MaxSeg, nt \in 1..MaxSeg, spatial \in SpatialShapes,
          d_is_array \in BOOLEAN, t_is_array \in BOOLEAN, s_is_array \in BOOLEAN :
          \E dshapes \in [1..nd -> DisplacementShapes], tshapes \in [1..nt -> TemporalShapes] :
              /\ d_is_array => nd = 1
              /\ t_is_array => (nt = 1 /\ d_is_array)
              /\ heap = <<arange(spatial)>>
                            \o [j \in 1..nd |-> arange(dshapes[j])]
                            \o [j \in 1..nt |-> arange(tshapes[j])]
              /\ call = [name |-> "Motion",
                         displacement |-> IF d_is_array THEN ref(2)
                                          ELSE pylist([j \in 1..nd |-> 1 + j]),
                         temporal_bins_s |-> IF t_is_array THEN ref(2 + nd)
                                             ELSE pylist([j \in 1..nt |-> 1 + nd + j]),
                         spatial_bins_um |-> IF s_is_array THEN ref(1) ELSE pylist(<<0, 1>>)]
    /\ m = NoneVal
    /\ other = NoneVal
    /\ loaded = NoneVal
    /\ folder = NoneVal
    /\ result = NoResult
    /\ called = FALSE

\* m = Motion(displacement, temporal_bins_s, spatial_bins_um)
Construct ==
    /\ result = NoResult
    /\ m' = Motion_init(heap, call.displacement, call.temporal_bins_s, call.spatial_bins_um,
                        "y", "linear")
    /\ result' = m'
    /\ UNCHANGED <<other, loaded, folder, heap, call, called>>

NextConstruct == Construct

SpecConstruct == InitConstruct /\ [][NextConstruct]_vars

\* the shape invariant of the data model
ShapeInvariant(self) ==
    /\ Len(self.displacement) = Len(self.temporal_bins_s)
    /\ \A j \in 1..Len(self.displacement) : ndim(heap[self.displacement[j]]) = 2
    /\ \A j \in 1..Len(self.temporal_bins_s) : ndim(heap[self.temporal_bins_s[j]]) = 1
    /\ \A j \in 1..Len(self.displacement) :
           /\ j <= Len(self.temporal_bins_s) =>
                  heap[self.temporal_bins_s[j]].shape[1] = heap[self.displacement[j]].shape[1]
           /\ heap[self.spatial_bins_um].shape = <<heap[self.displacement[j]].shape[2]>>

\* C4: a Motion whose construction succeeded has as many temporal-bin
\* arrays as displacement grids, 2-D grids, 1-D temporal bins as long as
\* the rows of their grid, and spatial bins as long as the columns; any
\* other construction fails with an AssertionError.
C4_ConstructedShapes ==
    result # NoResult =>
        /\ ~IsError(m) => ShapeInvariant(m)
        /\ IsError(m) => m = raise("AssertionError")

(***************************************************************************)
(* scipy_conv1d.                                                           *)
(***************************************************************************)
MaxBatch == 2
MaxFilters == 2
MaxLen == 4
MaxPad == 1

pystr(x) == [py |-> "str", val |-> x]

\* sum over l of x[from + l] * w[l], entries of x outside 1..Len(x) being 0
RECURSIVE Dot(_, _, _, _)
Dot(x, w, from, l) ==
    IF l > Len(w) THEN 0
    ELSE (IF from + l \in 1..Len(x) THEN x[from + l] * w[l] ELSE 0) + Dot(x, w, from, l + 1)

\* scipy.signal.correlate(x, w, mode) of 1-D arrays, w no longer than x
correlate(x, w, mode) ==
    IF mode = "valid" THEN [k \in 1..(Len(x) - Len(w) + 1) |-> Dot(x, w, k - 1, 1)]
    ELSE [k \in 1..Len(x) |-> Dot(x, w, k - 1 + ((Len(w) - 1) \div 2) - (Len(w) - 1), 1)]

\* np.pad(row, (padding, padding))
pad(row, padding) ==
    [k \in 1..(Len(row) + 2 * padding) |->
        IF k - padding \in 1..Len(row) THEN row[k - padding] ELSE 0]

\* x[m, 0] of a 3-D array (0-based m)
Row(x, q) == [i \in 1..x.shape[3] |-> x.data[q * x.shape[2] * x.shape[3] + i]]

\* output[m, c] = value: the lengths agree, or a value of length 1 is
\* broadcast; anything else is numpy's ValueError
CanAssign(length_out, value) == Len(value) = length_out \/ Len(value) = 1

scipy_conv1d(input, weights, padding) ==
    LET n == input.shape[1]
        c_in == input.shape[2]
        length == input.shape[3]
        c_out == weights.shape[1]
        in_by_groups == weights.shape[2]
        kernel_size == weights.shape[3]
    IN  IF ~(in_by_groups = c_in /\ c_in = 1) THEN raise("AssertionError")
        ELSE IF padding \notin {pystr("same"), pystr("valid")} /\ padding.py # "int"
        THEN raise("ValueError")
        ELSE
        LET mode == IF padding = pystr("same") THEN "same" ELSE "valid"
            length_out == IF padding = pystr("same") THEN length
                          ELSE IF padding = pystr("valid") THEN length - 2 * (kernel_size \div 2)
                          ELSE length - (kernel_size - 1) + 2 * padding.val
            row(q) == IF padding.py = "int" THEN pad(Row(input, q), padding.val)
                      ELSE Row(input, q)
            corr(q, c) == correlate(row(q), Row(weights, c), mode)
        IN  IF \E q \in 0..(n - 1), c \in 0..(c_out - 1) : ~CanAssign(length_out, corr(q, c))
            THEN raise("ValueError")
            ELSE ndarray(<<n, c_out, length_out>>,
                         [k \in 1..(n * c_out * length_out) |->
                            LET q == (k - 1) \div (c_out * length_out)
                                c == ((k - 1) \div length_out) % c_out
                                i == ((k - 1) % length_out) + 1
                                v == corr(q, c)
                            IN  IF Len(v) = 1 THEN v[1] ELSE v[i]])

PaddingsIn ==
    {pystr("same"), pystr("valid"), pystr("full"), NoneVal} \cup {pyint(p) : p \in 0..MaxPad}

InitConv ==
    /\ \E n \in 1..MaxBatch, c_out \in 1..MaxFilters, length \in 1..MaxLen,
          padding \in PaddingsIn :
          \E kernel_size \in 1..length :
              call = [name |-> "scipy_conv1d",
                      input |-> ndarray(<<n, 1, length>>,
                                        [k \in 1..(n * length) |-> (k * k) % 3]),
                      weights |-> ndarray(<<c_out, 1, kernel_size>>,
                                          [k \in 1..(c_out * kernel_size) |-> 1 + (k % 2)]),
                      padding |-> padding]
    /\ m = NoneVal
    /\ other = NoneVal
    /\ loaded = NoneVal
    /\ folder = NoneVal
    /\ heap = <<>>
    /\ result = NoResult
    /\ called = FALSE

Conv ==
    /\ result = NoResult
    /\ result' = scipy_conv1d(call.input, call.weights, call.padding)
    /\ UNCHANGED <<m, other, loaded, folder, heap, call, called>>

NextConv == Conv

SpecConv == InitConv /\ [][NextConv]_vars

\* C7: for padding "same", "valid" or an integer pad >= 0 and any kernel
\* size up to the input length, scipy_conv1d completes with an output of
\* shape (batch, num_filters, output_length): the input length for "same",
\* length - 2 * (kernel_size // 2) for "valid", length - kernel_size + 1 +
\* 2 * pad for a pad; any other padding raises ValueError.
C7_OutputLength ==
    result # NoResult =>
        LET length == call.input.shape[3]
            kernel_size == call.weights.shape[3]
            expected == IF call.padding = pystr("same") THEN length
                        ELSE IF call.padding = pystr("valid")
                        THEN length - 2 * (kernel_size \div 2)
                        ELSE length - kernel_size + 1 + 2 * call.padding.val
        IN  IF call.padding \in {pystr("same"), pystr("valid")} \/ call.padding.py = "int"
            THEN /\ ~IsError(result)
                 /\ result.shape = <<call.input.shape[1], call.weights.shape[1], expected>>
            ELSE result = raise("ValueError")

(***************************************************************************)
(* get_windows.  Positions and weights are exact rationals.  The gaussian  *)
(* shape needs exp and is drawn only with rigid=True, where the shape is   *)
(* not used.                                                               *)
(***************************************************************************)
pyfloat(r) == [py |-> "float", val |-> r]

RECURSIVE RatSum(_)
RatSum(row) == IF row = <<>> THEN Int2Rat(0) ELSE RatAdd(Head(row), RatSum(Tail(row)))

RatSeqMin(row) ==
    CHOOSE x \in {row[i] : i \in 1..Len(row)} : \A j \in 1..Len(row) : RatLessEq(x, row[j])

RatSeqMax(row) ==
    CHOOSE x \in {row[i] : i \in 1..Len(row)} : \A j \in 1..Len(row) : RatLessEq(row[j], x)

\* the window of one center: an array of weights, or the ValueError of the
\* min of an empty selection (triangle with no bin in the window)
window(bin_centers, win_center, win_sigma_um, win_shape) ==
    LET n == Len(bin_centers)
        center_dist == [i \in 1..n |-> RatAbs(RatSub(bin_centers[i], win_center))]
        half == Rat(win_sigma_um, 2)
    IN  IF win_shape = "rect"
        THEN array1d([i \in 1..n |->
                         IF RatLess(center_dist[i], half) THEN Int2Rat(1) ELSE Int2Rat(0)])
        ELSE \* triangle
        LET in_window == {i \in 1..n : RatLessEq(center_dist[i], half)}
            neg == [i \in 1..n |-> RatSub(Int2Rat(0), center_dist[i])]
        IN  IF in_window = {} THEN raise("ValueError")
            ELSE
            LET lowest == CHOOSE x \in {neg[i] : i \in in_window} :
                              \A j \in in_window : RatLessEq(x, neg[j])
                shifted == [i \in 1..n |-> IF i \in in_window THEN RatSub(neg[i], lowest)
                                           ELSE Int2Rat(0)]
                highest == CHOOSE x \in {shifted[i] : i \in in_window} :
                               \A j \in in_window : RatLessEq(shifted[j], x)
            IN  array1d([i \in 1..n |-> IF i \in in_window THEN RatDiv(shifted[i], highest)
                                        ELSE Int2Rat(0)])

\* windows[windows < zero_threshold] = 0; windows /= windows.sum(axis=1)
apply_zero_threshold(windows, zero_threshold) ==
    [w \in 1..Len(windows) |->
        LET cut == [i \in 1..Len(windows[w]) |->
                       IF RatLess(windows[w][i], zero_threshold) THEN Int2Rat(0)
                       ELSE windows[w][i]]
            total == RatSum(cut)
        IN  [i \in 1..Len(cut) |-> RatDiv(cut[i], total)]]

\* [windows |-> the rows of weights, window_centers |-> the centers], or
\* the exception
get_windows(rigid, contact_pos, spatial_bin_edges, margin_um, win_step_um, win_sigma_um, win_shape, zero_threshold) ==
    LET e == spatial_bin_edges.data
        n == Len(e) - 1
        bin_centers == [i \in 1..n |-> Rat(e[i + 1] + e[i], 2)]
        min_ == SeqMin(contact_pos.data) - margin_um
        max_ == SeqMax(contact_pos.data) + margin_um
        num_windows == (max_ - min_) \div win_step_um
        border == Rat((max_ - min_) % win_step_um, 2)
        window_centers ==
            IF rigid THEN <<Rat(e[1] + e[Len(e)], 2)>>
            ELSE [k \in 1..(num_windows + 1) |->
                     RatAdd(Int2Rat((k - 1) * win_step_um + min_), border)]
        made == IF rigid THEN <<array1d([i \in 1..n |-> Int2Rat(1)])>>
                ELSE [k \in 1..(num_windows + 1) |->
                         window(bin_centers, window_centers[k], win_sigma_um, win_shape)]
        windows == [k \in 1..Len(made) |-> made[k].data]
    IN  IF \E k \in 1..Len(made) : IsError(made[k])
        THEN raise("ValueError")
        ELSE [py |-> "tuple",
              windows |-> IF IsNone(zero_threshold) THEN windows
                          ELSE apply_zero_threshold(windows, zero_threshold.val),
              window_centers |-> window_centers]

EdgesIn == {<<0, 2>>, <<0, 2, 4>>, <<0, 1, 3, 6>>}

ContactsIn == {ndarray(<<2, 2>>, <<0, 0, 0, 4>>), ndarray(<<3, 2>>, <<1, 0, 1, 3, 1, 6>>)}

ThresholdsIn == {NoneVal, pyfloat(<<1, 2>>), pyfloat(<<1, 1>>), pyfloat(<<2, 1>>)}

InitWindows ==
    /\ \E rigid \in BOOLEAN, contact_pos \in ContactsIn, edges \in EdgesIn,
          margin_um \in {0, 1}, win_step_um \in {1, 2, 3}, win_sigma_um \in {1, 2, 4},
          win_shape \in {"gaussian", "rect", "triangle"}, zero_threshold \in ThresholdsIn :
          /\ win_shape = "gaussian" => rigid
          /\ call = [name |-> "get_windows", rigid |-> rigid, contact_pos |-> contact_pos,
                     spatial_bin_edges |-> array1d(edges), margin_um |-> margin_um,
                     win_step_um |-> win_step_um, win_sigma_um |-> win_sigma_um,
                     win_shape |-> win_shape, zero_threshold |-> zero_threshold]
    /\ m = NoneVal
    /\ other = NoneVal
    /\ loaded = NoneVal
    /\ folder = NoneVal
    /\ heap = <<>>
    /\ result = NoResult
    /\ called = FALSE

Windows ==
    /\ result = NoResult
    /\ result' = get_windows(call.rigid, call.contact_pos, call.spatial_bin_edges,
                             call.margin_um, call.win_step_um, call.win_sigma_um,
                             call.win_shape, call.zero_threshold)
    /\ UNCHANGED <<m, other, loaded, folder, heap, call, called>>

NextWindows == Windows

SpecWindows == InitWindows /\ [][NextWindows]_vars

\* C8: with rigid=True, get_windows returns exactly one window whose weight
\* is 1 at every spatial bin and exactly one center, the midpoint of the
\* first and last bin edge, whatever the other arguments are,
\* zero_threshold included.
C8_RigidWindow ==
    (result # NoResult /\ call.rigid) =>
        LET e == call.spatial_bin_edges.data
        IN  /\ ~IsError(result)
            /\ result.windows = <<[i \in 1..(Len(e) - 1) |-> Int2Rat(1)]>>
            /\ result.window_centers = <<Rat(e[1] + e[Len(e)], 2)>>

====
